---- MODULE Spec2Model ----
(***************************************************************************)
(* Model of the todo service's create pipeline:                            *)
(*   server/src/controller/addTodo.ts  (the POST /api/todos/add handler)   *)
(*   server/src/utils db.connect       (the lazy connection gateway)       *)
(* Several requests are in flight at once.  The runtime is cooperative and *)
(* single threaded: one action is one synchronous segment of a handler,    *)
(* running from one await (or the handler's entry) to the next.            *)
(***************************************************************************)
EXTENDS Integers, Sequences, FiniteSets

\* Number of requests handled in one behaviour.
NumRequests == 2

Requests == 1..NumRequests

\* The JavaScript value undefined (an absent property, an absent body).
Undefined == "<undefined>"

\* Values a property of the JSON body may hold.
DescriptionValues == {Undefined, "", "test-description"}
CategoryValues == {Undefined, "", "hobby"}
DoneValues == {Undefined, "true"}

\* req.body when no body was parsed.
NoBody == [undefined |-> TRUE]

\* req.body as an object; a property holding Undefined is absent.
ObjectBodies ==
  [description : DescriptionValues, category : CategoryValues, done : DoneValues]

Bodies == {NoBody} \cup ObjectBodies

\* mongoose.connection.readyState.  db.connect compares it with 1 only; 0 and
\* 2 are the driver's values for "no connection" and "connect in progress".
\* The driver is not part of the repository: each mongoose.connect call is
\* modelled as a promise that resolves or rejects on its own, a rejection
\* leaving a connection that is already live alone.
Disconnected == 0
Connected == 1
Connecting == 2

VARIABLES
  pc,                   \* position of each request's handler
  body,                 \* req.body of each request
  responses,            \* responses written to res, in order
  connectCalls,         \* invocations of db.connect by each request
  connectPromise,       \* the promise db.connect returned to each request
  insertCalls,          \* arguments of each request's TodoModel.insertMany calls
  insertState,          \* the promise of the request's insertMany call
  readyState,           \* mongoose.connection.readyState
  mongooseConnectCalls, \* invocations of mongoose.connect
  store                 \* documents of the Todo collection

vars == <<pc, body, responses, connectCalls, connectPromise, insertCalls, insertState,
          readyState, mongooseConnectCalls, store>>

\* JavaScript's !x on the values of the model.
Falsy(x) == x \in {Undefined, ""}

\* No validation branch was taken.
NoError == "<none>"

\* Variants of ValidationError with one slip each (message text, order of
\* the checks, a check left out), used to test the properties below.
ValidationError_NoBodyText(b) ==
  IF b = NoBody THEN "No body"
  ELSE IF Falsy(b.description) THEN "No description!"
  ELSE IF Falsy(b.category) THEN "No category!"
  ELSE NoError

ValidationError_CategoryFirst(b) ==
  IF b = NoBody THEN "No body!"
  ELSE IF Falsy(b.category) THEN "No category!"
  ELSE IF Falsy(b.description) THEN "No description!"
  ELSE NoError

ValidationError_NoDescriptionCheck(b) ==
  IF b = NoBody THEN "No body!"
  ELSE IF Falsy(b.category) THEN "No category!"
  ELSE NoError

ValidationError_NoCategoryCheck(b) ==
  IF b = NoBody THEN "No body!"
  ELSE IF Falsy(b.description) THEN "No description!"
  ELSE NoError

\* The message of the validation branch addTodo takes for body b.
ValidationError(b) ==
  IF b = NoBody THEN "No body!"
  ELSE IF Falsy(b.description) THEN "No description!"
  ELSE IF Falsy(b.category) THEN "No category!"
  ELSE NoError

\* res.status(400).json({ message })
BadRequest(message) == [status |-> 400, message |-> message]

\* res.json({ message: "addTodo" }): the status stays at its default, 200.
Success == [status |-> 200, message |-> "addTodo"]

\* Variant: req.body is handed to insertMany as it came.
InsertPayload_WholeBody(b) == b

\* The argument of TodoModel.insertMany: { description, category }.
InsertPayload(b) == [description |-> b.description, category |-> b.category]

\* Variant: the liveness check is missing.
IsLive_Never(rs) == FALSE

\* db.connect's check: mongoose.connection.readyState === 1
IsLive(rs) == rs = Connected

Init ==
  /\ pc = [r \in Requests |-> "idle"]
  /\ body = [r \in Requests |-> NoBody]
  /\ responses = [r \in Requests |-> <<>>]
  /\ connectCalls = [r \in Requests |-> 0]
  /\ connectPromise = [r \in Requests |-> "none"]
  /\ insertCalls = [r \in Requests |-> <<>>]
  /\ insertState = [r \in Requests |-> "none"]
  /\ readyState = Disconnected
  /\ mongooseConnectCalls = 0
  /\ store = <<>>

\* The synchronous part of db.connect(), called by request r.
DbConnect(r) ==
  /\ connectCalls' = [connectCalls EXCEPT ![r] = @ + 1]
  /\ IF IsLive(readyState)
       THEN /\ connectPromise' = [connectPromise EXCEPT ![r] = "resolved"]
            /\ pc' = [pc EXCEPT ![r] = "awaitConnect"]
            /\ UNCHANGED <<readyState, mongooseConnectCalls>>
       ELSE /\ mongooseConnectCalls' = mongooseConnectCalls + 1
            /\ readyState' = Connecting
            /\ connectPromise' = [connectPromise EXCEPT ![r] = "pending"]
            /\ pc' = [pc EXCEPT ![r] = "awaitMongoose"]

\* Variant: the return after the "No category!" response is missing.
AddTodoStart_NoReturnAfterCategory(r, b) ==
  /\ pc[r] = "idle"
  /\ body' = [body EXCEPT ![r] = b]
  /\ IF ValidationError(b) = "No category!"
       THEN /\ responses' = [responses EXCEPT
                               ![r] = Append(@, BadRequest(ValidationError(b)))]
            /\ DbConnect(r)
       ELSE IF ValidationError(b) # NoError
         THEN /\ responses' = [responses EXCEPT
                                 ![r] = Append(@, BadRequest(ValidationError(b)))]
              /\ pc' = [pc EXCEPT ![r] = "done"]
              /\ UNCHANGED <<connectCalls, connectPromise, readyState,
                           mongooseConnectCalls>>
         ELSE /\ DbConnect(r)
              /\ UNCHANGED responses
  /\ UNCHANGED <<insertCalls, insertState, store>>

\* addTodo from its entry to its first await: the three checks, and the call
\* of db.connect() when all of them pass.
AddTodoStart(r, b) ==
  /\ pc[r] = "idle"
  /\ body' = [body EXCEPT ![r] = b]
  /\ IF ValidationError(b) # NoError
       THEN /\ responses' = [responses EXCEPT
                               ![r] = Append(@, BadRequest(ValidationError(b)))]
            /\ pc' = [pc EXCEPT ![r] = "done"]
            /\ UNCHANGED <<connectCalls, connectPromise, readyState,
                           mongooseConnectCalls>>
       ELSE /\ DbConnect(r)
            /\ UNCHANGED responses
  /\ UNCHANGED <<insertCalls, insertState, store>>

\* The promise of mongoose.connect resolves: the connection is live and
\* db.connect returns.
MongooseConnectResolve(r) ==
  /\ pc[r] = "awaitMongoose"
  /\ connectPromise' = [connectPromise EXCEPT ![r] = "resolved"]
  /\ readyState' = Connected
  /\ pc' = [pc EXCEPT ![r] = "awaitConnect"]
  /\ UNCHANGED <<body, responses, connectCalls, insertCalls, insertState,
                 mongooseConnectCalls, store>>

\* Variant: the rejection is caught and the handler goes on.
MongooseConnectReject_Swallowed(r) ==
  /\ pc[r] = "awaitMongoose"
  /\ connectPromise' = [connectPromise EXCEPT ![r] = "rejected"]
  /\ readyState' = IF readyState = Connecting THEN Disconnected ELSE readyState
  /\ pc' = [pc EXCEPT ![r] = "awaitConnect"]
  /\ UNCHANGED <<body, responses, connectCalls, insertCalls, insertState,
                 mongooseConnectCalls, store>>

\* The promise of mongoose.connect rejects: db.connect rejects, and so does
\* addTodo at its await, which no try/catch surrounds.
MongooseConnectReject(r) ==
  /\ pc[r] = "awaitMongoose"
  /\ connectPromise' = [connectPromise EXCEPT ![r] = "rejected"]
  /\ readyState' = IF readyState = Connecting THEN Disconnected ELSE readyState
  /\ pc' = [pc EXCEPT ![r] = "thrown"]
  /\ UNCHANGED <<body, responses, connectCalls, insertCalls, insertState,
                 mongooseConnectCalls, store>>

\* addTodo after its await: insertMany is called, its promise is dropped,
\* and the response is written in the same synchronous segment.
AddTodoResume(r) ==
  /\ pc[r] = "awaitConnect"
  /\ insertCalls' = [insertCalls EXCEPT ![r] = Append(@, InsertPayload(body[r]))]
  /\ insertState' = [insertState EXCEPT ![r] = "pending"]
  /\ responses' = [responses EXCEPT ![r] = Append(@, Success)]
  /\ pc' = [pc EXCEPT ![r] = "done"]
  /\ UNCHANGED <<body, connectCalls, connectPromise, readyState,
                 mongooseConnectCalls, store>>

\* The store completes the insert of request r.
InsertComplete(r) ==
  /\ insertState[r] = "pending"
  /\ insertState' = [insertState EXCEPT ![r] = "completed"]
  /\ store' = Append(store, insertCalls[r][Len(insertCalls[r])])
  /\ UNCHANGED <<pc, body, responses, connectCalls, connectPromise, insertCalls,
                 readyState,
                 mongooseConnectCalls>>

\* The store rejects the insert of request r; nothing observes the rejection.
InsertFail(r) ==
  /\ insertState[r] = "pending"
  /\ insertState' = [insertState EXCEPT ![r] = "failed"]
  /\ UNCHANGED <<pc, body, responses, connectCalls, connectPromise, insertCalls,
                 readyState,
                 mongooseConnectCalls, store>>

Next ==
  \/ \E r \in Requests, b \in Bodies : AddTodoStart(r, b)
  \/ \E r \in Requests : MongooseConnectResolve(r)
  \/ \E r \in Requests : MongooseConnectReject(r)
  \/ \E r \in Requests : AddTodoResume(r)
  \/ \E r \in Requests : InsertComplete(r)
  \/ \E r \in Requests : InsertFail(r)

Spec == Init /\ [][Next]_vars

(***************************************************************************)
(* Properties                                                              *)
(***************************************************************************)

\* The request's body passes the three checks.
ValidBody(b) == b # NoBody /\ ~Falsy(b.description) /\ ~Falsy(b.category)

\* Request r received a 400 response.
Rejected(r) == \E i \in 1..Len(responses[r]) : responses[r][i].status = 400

\* C1: a valid request whose handler ran to its end called db.connect once,
\* called insertMany once with a record of exactly the body's description and
\* category, and wrote the single response 200 {message: "addTodo"}.
C1_ValidRequestInsertsAndAcknowledges ==
  \A r \in Requests :
    (pc[r] = "done" /\ ValidBody(body[r])) =>
      /\ connectCalls[r] = 1
      /\ Len(insertCalls[r]) = 1
      /\ DOMAIN insertCalls[r][1] = {"description", "category"}
      /\ insertCalls[r][1].description = body[r].description
      /\ insertCalls[r][1].category = body[r].category
      /\ responses[r] = <<[status |-> 200, message |-> "addTodo"]>>

\* C1 witness: a valid request that also carried a done field has finished.
C1_Witness ==
  \E r \in Requests :
    /\ pc[r] = "done"
    /\ ValidBody(body[r])
    /\ body[r].done # Undefined
    /\ Len(insertCalls[r]) = 1
    /\ Len(responses[r]) = 1

\* C2: whenever the 200 {message: "addTodo"} response of a request has been
\* written, the insert that request issued has completed.
C2_ResponseOnlyAfterInsertCompleted ==
  \A r \in Requests :
    (\E i \in 1..Len(responses[r]) : responses[r][i].status = 200) =>
      insertState[r] = "completed"

\* C3: a request without a body gets exactly 400 {message: "No body!"}, and
\* neither db.connect nor insertMany is ever invoked for it.
C3_NoBodyRejected ==
  \A r \in Requests :
    (pc[r] # "idle" /\ body[r] = NoBody) =>
      /\ responses[r] = <<[status |-> 400, message |-> "No body!"]>>
      /\ connectCalls[r] = 0
      /\ insertCalls[r] = <<>>
      /\ pc[r] = "done"

\* C3 witness: a request without a body has been handled.
C3_Witness ==
  \E r \in Requests :
    pc[r] = "done" /\ body[r] = NoBody /\ Len(responses[r]) = 1

\* C4: a request with a body whose description is absent or falsy gets
\* exactly 400 {message: "No description!"}, whatever its category, and
\* neither db.connect nor insertMany is ever invoked for it.
C4_NoDescriptionRejected ==
  \A r \in Requests :
    (pc[r] # "idle" /\ body[r] # NoBody /\ Falsy(body[r].description)) =>
      /\ responses[r] = <<[status |-> 400, message |-> "No description!"]>>
      /\ connectCalls[r] = 0
      /\ insertCalls[r] = <<>>
      /\ pc[r] = "done"

\* C4 witness: a request with neither description nor category has been
\* handled, and so has one with a category but an empty description.
C4_Witness ==
  /\ \E r \in Requests :
       /\ pc[r] = "done" /\ body[r] # NoBody
       /\ body[r].description = Undefined /\ body[r].category = Undefined
       /\ Len(responses[r]) = 1
  /\ \E r \in Requests :
       /\ pc[r] = "done" /\ body[r] # NoBody
       /\ body[r].description = "" /\ ~Falsy(body[r].category)
       /\ Len(responses[r]) = 1

\* C5: a request with a truthy description whose category is absent or falsy
\* gets exactly 400 {message: "No category!"}, and neither db.connect nor
\* insertMany is ever invoked for it.
C5_NoCategoryRejected ==
  \A r \in Requests :
    (/\ pc[r] # "idle" /\ body[r] # NoBody
     /\ ~Falsy(body[r].description) /\ Falsy(body[r].category)) =>
      /\ responses[r] = <<[status |-> 400, message |-> "No category!"]>>
      /\ connectCalls[r] = 0
      /\ insertCalls[r] = <<>>
      /\ pc[r] = "done"

\* C5 witness: a request with a description and no category has been handled.
C5_Witness ==
  \E r \in Requests :
    /\ pc[r] = "done" /\ body[r] # NoBody
    /\ ~Falsy(body[r].description) /\ body[r].category = Undefined
    /\ Len(responses[r]) = 1

\* Some request's db.connect call has completed successfully.
SomeConnectCompleted == \E q \in Requests : connectPromise[q] = "resolved"

\* No db.connect call is in progress.
NoConnectInProgress == \A q \in Requests : connectPromise[q] # "pending"

\* C6: no step taken while the connection is live calls mongoose.connect or
\* changes readyState, and a db.connect call that starts after another one
\* completed successfully, with none in progress, makes no connection attempt.
C6_ConnectIdempotent ==
  [][/\ readyState = Connected =>
          /\ mongooseConnectCalls' = mongooseConnectCalls
          /\ readyState' = Connected
     /\ (/\ SomeConnectCompleted
         /\ NoConnectInProgress
         /\ \E r \in Requests : connectCalls'[r] = connectCalls[r] + 1) =>
          mongooseConnectCalls' = mongooseConnectCalls]_vars

\* C6 witness: two db.connect calls have completed, the connection is live
\* and mongoose.connect was called once.
C6_Witness ==
  /\ readyState = Connected
  /\ mongooseConnectCalls = 1
  /\ Cardinality({r \in Requests : connectPromise[r] = "resolved"}) >= 2

\* C7: no request gets more than one response; a handler that ran to its end
\* wrote exactly one; after a 400 response the handler has ended without a
\* db.connect or insertMany call.
C7_SingleResponse ==
  \A r \in Requests :
    /\ Len(responses[r]) <= 1
    /\ pc[r] = "done" => Len(responses[r]) = 1
    /\ Rejected(r) =>
         /\ pc[r] = "done"
         /\ connectCalls[r] = 0
         /\ insertCalls[r] = <<>>

\* C7 witness: one request has ended on a validation failure and another on
\* the success path.
C7_Witness ==
  /\ \E r \in Requests : pc[r] = "done" /\ Rejected(r)
  /\ \E r \in Requests : pc[r] = "done" /\ responses[r] = <<Success>>

\* C8: at no time is more than one mongoose.connect call in progress.
C8_AtMostOneConnectionAttempt ==
  Cardinality({r \in Requests : connectPromise[r] = "pending"}) <= 1

\* C9: every record submitted to insertMany, and every document of the store,
\* has a truthy description and category; records come only from requests
\* whose body passed the three checks; a request that got a 400 response
\* submitted none.
C9_StoreInvariant ==
  /\ \A r \in Requests :
       /\ \A i \in 1..Len(insertCalls[r]) :
            /\ ~Falsy(insertCalls[r][i].description)
            /\ ~Falsy(insertCalls[r][i].category)
       /\ insertCalls[r] # <<>> => ValidBody(body[r])
       /\ Rejected(r) => insertCalls[r] = <<>>
  /\ \A k \in 1..Len(store) :
       /\ ~Falsy(store[k].description)
       /\ ~Falsy(store[k].category)
       /\ \E r \in Requests :
            /\ ~Rejected(r)
            /\ \E i \in 1..Len(insertCalls[r]) : insertCalls[r][i] = store[k]

\* C9 witness: a document is in the store while another request was rejected.
C9_Witness ==
  /\ Len(store) >= 1
  /\ \E r \in Requests : Rejected(r)

\* C10: a request whose db.connect failed has ended at the connect step:
\* insertMany was not invoked and no response was written.
C10_ConnectFailurePropagates ==
  \A r \in Requests :
    connectPromise[r] = "rejected" =>
      /\ pc[r] = "thrown"
      /\ insertCalls[r] = <<>>
      /\ insertState[r] = "none"
      /\ responses[r] = <<>>

\* C10 witness: the db.connect call of a valid request has failed.
C10_Witness ==
  \E r \in Requests :
    connectPromise[r] = "rejected" /\ ValidBody(body[r])

====
